---- MODULE Spec2Model ----
(***************************************************************************)
(* A model of phonopy's phonon/dos.py: the index-grouping helpers          *)
(* (get_pdos, plot_partial_dos), the frequency grid builder                *)
(* (Dos.set_draw_area), the smearing kernels and the TotalDos / PartialDos *)
(* engines with their run / set_sigma / set_smearing_function /            *)
(* set_Debye_frequency operations.                                         *)
(*                                                                         *)
(* Numbers.  Frequencies, sigma and pitch are integers in a fixed unit     *)
(* (1/1000 of the frequency unit); the inputs are chosen so that the       *)
(* divisions by 100 and 200 of set_draw_area are exact.  Densities are     *)
(* fixed-point integers over a denominator that depends only on the        *)
(* engine's constant data (DosDen, PdosDen), so sums are exact.            *)
(* Python's None is the empty tuple <<>>, a present value v is <<v>>.       *)
(***************************************************************************)
EXTENDS Integers, Sequences, FiniteSets, TLC

VARIABLES
    \* index-grouping calls (get_pdos, plot_partial_dos)
    g_pc,           \* "ready" before the call, "done" after it
    g_partial_dos,  \* argument partial_dos: natoms rows over the grid
    g_indices,      \* argument indices: None or a list of index groups
    g_call,         \* the call made: function name and keyword flags
    g_result,       \* how the call ended: raised, printed, returned
    g_ax,           \* the matplotlib axes object handed to the call
    \* one Dos engine and its environment
    env,            \* what the imports of the optional packages have shown
    engine,         \* the TotalDos / PartialDos object (<<>> before __init__)
    last,           \* the most recent method call and how it ended
    \* a PartialDos built on the mesh of `engine` (channel-sum comparison)
    pengine

gvars == <<g_pc, g_partial_dos, g_indices, g_call, g_result, g_ax>>
evars == <<env, engine, last>>
vars == <<g_pc, g_partial_dos, g_indices, g_call, g_result, g_ax,
          env, engine, last, pengine>>

----------------------------------------------------------------------------
(* Python values *)

None == <<>>
Some(v) == <<v>>
IsNone(o) == o = <<>>
Val(o) == o[1]

RECURSIVE SeqSum(_)
SeqSum(s) == IF s = <<>> THEN 0 ELSE Head(s) + SeqSum(Tail(s))

Abs(x) == IF x < 0 THEN -x ELSE x

\* Sequences over S of length at most n.
SeqsUpTo(S, n) == UNION {[1..k -> S] : k \in 0..n}

----------------------------------------------------------------------------
(* Bounds of the index-grouping inputs *)

MaxAtoms == 2
MaxGroups == 2
MaxEntries == 2
NumFreqs == 2

\* A partial_dos array of n rows: row i (0-based) is (i+1) * (1, 3, 5, ...).
PartialDosOf(n) == [i \in 1..n |-> [f \in 1..NumFreqs |-> i * (2 * f - 1)]]

GridOf == [f \in 1..NumFreqs |-> f - 1]

IndexValues == -1..MaxAtoms

\* The flat list f cut into consecutive groups of the given lengths.
RECURSIVE Split(_, _)
Split(f, lens) ==
    IF lens = <<>> THEN <<>>
    ELSE <<SubSeq(f, 1, Head(lens))>> \o
         Split(SubSeq(f, Head(lens) + 1, Len(f)), Tail(lens))

\* Every list of at most 'groups' groups (empty ones included) that hold at
\* most 'entries' values of V in all.
GroupingsOf(V, groups, entries) ==
    {Split(p[1], p[2]) :
        p \in {q \in SeqsUpTo(V, entries) \X SeqsUpTo(0..entries, groups) :
                  SeqSum(q[2]) = Len(q[1])}}

\* Lists of at most MaxGroups groups holding at most MaxEntries indices in all.
Groupings == GroupingsOf(IndexValues, MaxGroups, MaxEntries)

----------------------------------------------------------------------------
(* numpy values used by the grouping helpers *)

Scalar0 == [tag |-> "scalar", arr |-> <<>>]
Array(a) == [tag |-> "array", arr |-> a]
Zeros(n) == [f \in 1..n |-> 0]

\* x + row, where x is the scalar 0 or an array (broadcast of the scalar).
AddRow(x, row) ==
    IF x.tag = "scalar" THEN Array(row)
    ELSE Array([f \in 1..Len(row) |-> x.arr[f] + row[f]])

\* indices = list(np.arange(natoms)): a flat list of integers, not of groups.
DefaultIndices(natoms) == [k \in 1..natoms |-> k - 1]

\* The two checks of the inner loop, in the order the code makes them.
IndexCheck(i, natoms) ==
    IF i > natoms - 1 THEN "larger"
    ELSE IF i < 0 THEN "positive"
    ELSE "ok"

\* A variant that formats the 0-based index i itself.
MessageZeroBased(kind, i) == [kind |-> kind, number |-> i]

\* What the code prints before raising: the kind of message and the number
\* it formats into it.
Message(kind, i) == [kind |-> kind, number |-> i + 1]

\* for i in set_for_sum: check i, pdos_sum += partial_dos[i]
RECURSIVE SumGroup(_, _, _, _)
SumGroup(partial_dos, set_for_sum, k, pdos_sum) ==
    IF k > Len(set_for_sum)
    THEN [raised |-> "none", printed |-> <<>>, pdos_sum |-> pdos_sum]
    ELSE LET i == set_for_sum[k]
             chk == IndexCheck(i, Len(partial_dos))
         IN  IF chk # "ok"
             THEN [raised |-> "ValueError", printed |-> <<Message(chk, i)>>,
                   pdos_sum |-> pdos_sum]
             ELSE SumGroup(partial_dos, set_for_sum, k + 1,
                           AddRow(pdos_sum, partial_dos[i + 1]))

\* get_pdos: the loop over the groups; pdos_list is local until the return.
RECURSIVE GetPdosLoop(_, _, _, _)
GetPdosLoop(partial_dos, indices, k, pdos_list) ==
    IF k > Len(indices)
    THEN [raised |-> "none", printed |-> <<>>, returned |-> Some(pdos_list)]
    ELSE LET s == SumGroup(partial_dos, indices[k], 1, Scalar0)
         IN  IF s.raised # "none"
             THEN [raised |-> s.raised, printed |-> s.printed, returned |-> None]
             ELSE GetPdosLoop(partial_dos, indices, k + 1,
                              Append(pdos_list, s.pdos_sum))

\* get_pdos(ax, partial_dos, indices).  With indices = None the default is a
\* flat list of integers, and iterating over its first element raises
\* TypeError.
get_pdos(partial_dos, indices) ==
    IF IsNone(indices)
    THEN IF DefaultIndices(Len(partial_dos)) = <<>>
         THEN [raised |-> "none", printed |-> <<>>, returned |-> Some(<<>>)]
         ELSE [raised |-> "TypeError", printed |-> <<>>, returned |-> None]
    ELSE GetPdosLoop(partial_dos, Val(indices), 1, <<>>)

----------------------------------------------------------------------------
(* plot_partial_dos *)

\* The axes object: tick settings, the curves drawn by ax.plot and
\* ax.fill_between(x), and the closing decorations.
NewAxes == [ticks |-> FALSE, curves |-> <<>>, decorated |-> FALSE]

Curve(kind, x, y, label) == [kind |-> kind, x |-> x, y |-> y, label |-> label]

\* One ax.plot call of the loop body.
PlotGroup(frequency_points, pdos_sum, flip_xy, legend, pdos_ind) ==
    LET label == IF IsNone(legend) THEN None ELSE Some(Val(legend)[pdos_ind + 1])
    IN  IF flip_xy
        THEN Curve("plot", pdos_sum, frequency_points, label)
        ELSE Curve("plot", frequency_points, pdos_sum, label)

\* The loop over the groups: each valid group is drawn as soon as it is summed.
RECURSIVE PlotLoop(_, _, _, _, _, _, _)
PlotLoop(ax, frequency_points, partial_dos, indices, flags, k, total_dos) ==
    IF k > Len(indices)
    THEN [raised |-> "none", printed |-> <<>>, ax |-> ax, total_dos |-> total_dos]
    ELSE LET s == SumGroup(partial_dos, indices[k], 1,
                           Array(Zeros(Len(frequency_points))))
         IN  IF s.raised # "none"
             THEN [raised |-> s.raised, printed |-> s.printed, ax |-> ax,
                   total_dos |-> total_dos]
             ELSE PlotLoop(
                    [ax EXCEPT !.curves = Append(@,
                        PlotGroup(frequency_points, s.pdos_sum.arr,
                                  flags.flip_xy, flags.legend, k - 1))],
                    frequency_points, partial_dos, indices, flags, k + 1,
                    IF flags.total_dos_bool
                    THEN AddRow(total_dos, s.pdos_sum.arr) ELSE total_dos)

\* plot_partial_dos(ax, frequency_points, partial_dos, total_dos_bool,
\* indices, legend, flip_xy).
plot_partial_dos(ax0, frequency_points, partial_dos, indices, flags) ==
    LET ax == [ax0 EXCEPT !.ticks = TRUE]
        natoms == Len(partial_dos)
    IN  IF IsNone(indices) /\ DefaultIndices(natoms) # <<>>
        THEN [raised |-> "TypeError", printed |-> <<>>, returned |-> None,
              ax |-> ax]
        ELSE LET l == PlotLoop(ax, frequency_points, partial_dos,
                               IF IsNone(indices) THEN <<>> ELSE Val(indices),
                               flags, 1, Scalar0)
             IN  IF l.raised # "none"
                 THEN [raised |-> l.raised, printed |-> l.printed,
                       returned |-> None, ax |-> l.ax]
                 ELSE [raised |-> "none", printed |-> <<>>,
                       returned |-> None,
                       ax |-> [l.ax EXCEPT
                           !.curves =
                               IF flags.total_dos_bool
                               THEN Append(@, Curve(
                                        IF flags.flip_xy THEN "fill_between"
                                        ELSE "fill_betweenx",
                                        l.total_dos, frequency_points, None))
                               ELSE @,
                           !.decorated = TRUE]]

----------------------------------------------------------------------------
(* The index-grouping specification: Init draws the arguments, one action  *)
(* per helper makes the call.                                              *)

IdleEngine ==
    /\ env = [phonoc |-> "untried", scipy |-> "untried"]
    /\ engine = None
    /\ last = [op |-> "none", raised |-> "none", n |-> 0]
    /\ pengine = None

GroupInit ==
    /\ g_pc = "ready"
    /\ g_partial_dos \in {PartialDosOf(n) : n \in 0..MaxAtoms}
    /\ g_indices \in {None} \cup {Some(gs) : gs \in Groupings}
    /\ g_call = [fn |-> "none"]
    /\ g_result = [raised |-> "none", printed |-> <<>>, returned |-> None]
    /\ g_ax = NewAxes
    /\ IdleEngine

CallGetPdos ==
    /\ g_pc = "ready"
    /\ g_call' = [fn |-> "get_pdos"]
    /\ g_result' = get_pdos(g_partial_dos, g_indices)
    /\ g_pc' = "done"
    /\ UNCHANGED <<g_partial_dos, g_indices, g_ax, evars, pengine>>

\* A legend, when given, has one label per group.
Legends(indices) ==
    {None} \cup
    (IF IsNone(indices) THEN {}
     ELSE {Some([k \in 1..Len(Val(indices)) |-> k])})

CallPlotPartialDos ==
    /\ g_pc = "ready"
    /\ \E total_dos_bool \in BOOLEAN, flip_xy \in BOOLEAN,
          legend \in Legends(g_indices) :
          LET flags == [total_dos_bool |-> total_dos_bool,
                        flip_xy |-> flip_xy, legend |-> legend]
              r == plot_partial_dos(g_ax, GridOf, g_partial_dos, g_indices,
                                    flags)
          IN  /\ g_call' = [fn |-> "plot_partial_dos", flags |-> flags]
              /\ g_result' = [raised |-> r.raised, printed |-> r.printed,
                              returned |-> r.returned]
              /\ g_ax' = r.ax
    /\ g_pc' = "done"
    /\ UNCHANGED <<g_partial_dos, g_indices, evars, pengine>>

GroupNext == CallGetPdos \/ CallPlotPartialDos

SpecGroup == GroupInit /\ [][GroupNext]_vars

----------------------------------------------------------------------------
(* The mesh object handed to the engines (an external provider).  A mesh   *)
(* is described by its number of atoms, its number of irreducible grid     *)
(* points, whether all its frequencies coincide, and the layout of its     *)
(* eigenvectors; its arrays follow from the description.                   *)

NumBand(m) == 3 * m.natoms

\* mesh_object.frequencies: ngrid x nband, in multiples of 1000 units.
Frequencies(m) ==
    [g \in 1..m.ngrid |-> [b \in 1..NumBand(m) |->
        IF m.flat THEN 1000 ELSE 1000 * ((b + g - 2) % 4)]]

\* mesh_object.weights: the multiplicity of each irreducible grid point.
Weights(m) == [g \in 1..m.ngrid |-> g]

\* mesh_object.mesh_numbers: their product is the number of grid points.
MeshNumbers(m) == <<1, 1, SeqSum(Weights(m))>>

\* Eigenvector components are Gaussian integers in units of 1/EigScale: the
\* column of band b at grid point g is (2, 1, 2i, 0, ..., 0) rotated by
\* b * twist + g rows, so its squared moduli sum to EigScale^2.
EigScale(m) == 3

Complex(re, im) == [re |-> re, im |-> im]

BaseComponent(k) ==
    IF k = 0 THEN Complex(2, 0)
    ELSE IF k = 1 THEN Complex(1, 0)
    ELSE IF k = 2 THEN Complex(0, 2)
    ELSE Complex(0, 0)

\* mesh_object.eigenvectors: ngrid x 3 natoms x nband.
Eigenvectors(m) ==
    [g \in 1..m.ngrid |-> [r \in 1..(3 * m.natoms) |-> [b \in 1..NumBand(m) |->
        BaseComponent((r - 1 + b * m.twist + g) % (3 * m.natoms))]]]

\* min() and max() of the non-empty part s[lo..hi] of an array.
RECURSIVE MinOver(_, _, _)
MinOver(s, lo, hi) ==
    IF lo = hi THEN s[lo]
    ELSE LET mid == (lo + hi) \div 2
             x == MinOver(s, lo, mid)
             y == MinOver(s, mid + 1, hi)
         IN  IF x < y THEN x ELSE y

RECURSIVE MaxOver(_, _, _)
MaxOver(s, lo, hi) ==
    IF lo = hi THEN s[lo]
    ELSE LET mid == (lo + hi) \div 2
             x == MaxOver(s, lo, mid)
             y == MaxOver(s, mid + 1, hi)
         IN  IF x > y THEN x ELSE y

SeqMin(s) == MinOver(s, 1, Len(s))
SeqMax(s) == MaxOver(s, 1, Len(s))

\* frequencies.min() and frequencies.max() over the whole matrix.
MatMin(a) == SeqMin([g \in 1..Len(a) |-> SeqMin(a[g])])
MatMax(a) == SeqMax([g \in 1..Len(a) |-> SeqMax(a[g])])

----------------------------------------------------------------------------
(* Smearing kernels.  calc returns the density times 10^5, truncated.      *)

\* 1000 * exp(-a / b), by the integer part of a / b.
ExpNegMilli(a, b) ==
    LET q == a \div b
        table == <<1000, 368, 135, 50, 18, 7, 2>>
    IN  IF q < Len(table) THEN table[q + 1] ELSE 0

\* NormalDistribution.calc: 1 / sqrt(2 pi) / sigma * exp(-x^2 / 2 / sigma^2)
NormalCalc(sigma, x) ==
    LET v == (ExpNegMilli(x * x, 2 * sigma * sigma) * 100000) \div
                 (2507 * Abs(sigma))
    IN  IF sigma < 0 THEN -v ELSE v

\* CauchyDistribution.calc: gamma / pi / (x^2 + gamma^2)
CauchyCalc(gamma, x) ==
    LET v == (Abs(gamma) * 700000) \div (22 * (x * x + gamma * gamma))
    IN  IF gamma < 0 THEN -v ELSE v

\* self._smearing_function.calc(x): the width is the one the kernel object
\* was constructed with.
SmearingCalc(smearing_function, x) ==
    IF smearing_function.name = "Cauchy"
    THEN CauchyCalc(Val(smearing_function.sigma), x)
    ELSE NormalCalc(Val(smearing_function.sigma), x)

----------------------------------------------------------------------------
(* Dos: the frequency grid and the parameters *)

SigmaDivisor == 100
MarginFactor == 10
PitchDivisor == 200

\* A variant with stop = f_max, without the tenth of a pitch.
ArangeLenNoTolerance(f_min, f_max, f_delta) ==
    LET span == 10 * (f_max - f_min)
        step == 10 * f_delta
        n == IF step > 0 THEN -((-span) \div step)
             ELSE -((span) \div (-step))
    IN  IF n > 0 THEN n ELSE 0

\* np.arange(start, stop, step) with stop = f_max + 0.1 * f_delta, computed
\* in tenths of the unit: ceil((stop - start) / step) points, none when that
\* is not positive.
ArangeLen(f_min, f_max, f_delta) ==
    LET span == 10 * (f_max - f_min) + f_delta
        step == 10 * f_delta
        n == IF step > 0 THEN -((-span) \div step)
             ELSE -((span) \div (-step))
    IN  IF n > 0 THEN n ELSE 0

Arange(f_min, f_max, f_delta) ==
    [i \in 1..ArangeLen(f_min, f_max, f_delta) |-> f_min + (i - 1) * f_delta]

\* The local variables of set_draw_area after its three if statements.
DrawAreaLocals(e, freq_min, freq_max, freq_pitch) ==
    LET f_min0 == MatMin(Frequencies(e.mesh_object))
        f_max0 == MatMax(Frequencies(e.mesh_object))
        sigma == IF IsNone(e.sigma) THEN (f_max0 - f_min0) \div SigmaDivisor
                 ELSE Val(e.sigma)
        f_min == IF IsNone(freq_min) THEN f_min0 - sigma * MarginFactor
                 ELSE Val(freq_min)
        f_max == IF IsNone(freq_max) THEN f_max0 + sigma * MarginFactor
                 ELSE Val(freq_max)
        f_delta == IF IsNone(freq_pitch) THEN (f_max - f_min) \div PitchDivisor
                   ELSE Val(freq_pitch)
    IN  [sigma |-> sigma, f_min |-> f_min, f_max |-> f_max,
         f_delta |-> f_delta,
         exact |-> /\ IsNone(e.sigma) => (f_max0 - f_min0) % SigmaDivisor = 0
                   /\ IsNone(freq_pitch) => (f_max - f_min) % PitchDivisor = 0]

\* Dos.set_draw_area.  A zero pitch makes np.arange raise after sigma has
\* been stored.
set_draw_area(e, freq_min, freq_max, freq_pitch) ==
    LET Assign(l) ==
            IF l.f_delta = 0
            THEN [obj |-> [e EXCEPT !.sigma = Some(l.sigma)],
                  raised |-> "ValueError", locals |-> l]
            ELSE [obj |-> [e EXCEPT !.sigma = Some(l.sigma),
                                    !.frequency_points =
                                        Some(Arange(l.f_min, l.f_max, l.f_delta))],
                  raised |-> "none", locals |-> l]
    IN  Assign(DrawAreaLocals(e, freq_min, freq_max, freq_pitch))

\* Dos.set_smearing_function: a new kernel object of the current sigma.
set_smearing_function(e, function_name) ==
    [e EXCEPT !.smearing_function =
        IF function_name = "Cauchy"
        THEN [name |-> "Cauchy", sigma |-> e.sigma]
        ELSE [name |-> "Normal", sigma |-> e.sigma]]

\* A variant in which an explicit sigma switches the engine to smearing.
set_sigma_switching(e, sigma) ==
    [e EXCEPT !.sigma = sigma,
              !.tetrahedron_mesh = IF IsNone(sigma) THEN @ ELSE None]

\* Dos.set_sigma: stores sigma; the kernel object is left as it is.
set_sigma(e, sigma) == [e EXCEPT !.sigma = sigma]

\* The fields every engine has, before Dos.__init__ fills them.
BlankEngine(cls, mesh_object) ==
    [cls |-> cls, mesh_object |-> mesh_object, tetrahedron_mesh |-> None,
     frequency_points |-> None, sigma |-> None,
     smearing_function |-> [name |-> "Normal", sigma |-> None],
     dos |-> None, freq_Debye |-> None, Debye_fit_coef |-> None,
     partial_dos |-> None, eigvecs2 |-> None, openmp_thm |-> FALSE]

\* Dos.__init__
DosInit(cls, mesh_object, sigma, use_tetrahedron_method) ==
    LET e0 == [BlankEngine(cls, mesh_object) EXCEPT
                  !.tetrahedron_mesh =
                      IF use_tetrahedron_method /\ IsNone(sigma)
                      THEN Some("TetrahedronMesh") ELSE None,
                  !.sigma = sigma]
        Then(a) ==
            IF a.raised # "none" THEN a
            ELSE [obj |-> set_smearing_function(a.obj, "Normal"),
                  raised |-> "none", locals |-> a.locals]
    IN  Then(set_draw_area(e0, None, None, None))

----------------------------------------------------------------------------
(* Tetrahedron integration weights (external: TetrahedronMesh and the      *)
(* native phonopy._phonopy extension).                                     *)

\* The integration weight 'I' of band b at grid point g for frequency f.
IntegrationWeight(m, g, b, f) ==
    LET d == Abs(Frequencies(m)[g][b] - f)
    IN  IF d < 500 THEN 500 - d ELSE 0

\* run_tetrahedron_method_dos with coef = None, after the import succeeded:
\* the native routine fills dos[g, b, f, 0], which is summed over grid points
\* and bands; the division by np.prod(mesh) is the denominator DosDen.
NativeTetrahedronDos(m, frequency_points) ==
    [i \in 1..Len(frequency_points) |->
        SeqSum([g \in 1..m.ngrid |->
            Weights(m)[g] *
            SeqSum([b \in 1..NumBand(m) |->
                IntegrationWeight(m, g, b, frequency_points[i])])])]

\* A variant that falls back to smearing when the extension is missing.
run_tetrahedron_method_dos_fallback(e, phonoc) ==
    [obj |-> [e EXCEPT !.dos = Some(
                 IF phonoc = "missing"
                 THEN [i \in 1..Len(Val(e.frequency_points)) |->
                          SeqSum([g \in 1..e.mesh_object.ngrid |->
                              SeqSum([b \in 1..NumBand(e.mesh_object) |->
                                  SmearingCalc(e.smearing_function,
                                      Frequencies(e.mesh_object)[g][b] -
                                      Val(e.frequency_points)[i])])])]
                 ELSE NativeTetrahedronDos(e.mesh_object,
                                           Val(e.frequency_points)))],
     raised |-> "none"]

\* run_tetrahedron_method_dos: the import of the native extension comes
\* first; without it the function prints and calls sys.exit(1).
run_tetrahedron_method_dos(e, phonoc) ==
    IF phonoc = "missing"
    THEN [obj |-> e, raised |-> "SystemExit"]
    ELSE [obj |-> [e EXCEPT !.dos = Some(NativeTetrahedronDos(
                        e.mesh_object, Val(e.frequency_points)))],
          raised |-> "none"]

----------------------------------------------------------------------------
(* TotalDos *)

\* TotalDos.__init__
TotalDosInit(mesh_object, sigma, use_tetrahedron_method) ==
    LET Then(d) ==
            IF d.raised # "none" THEN d
            ELSE [d EXCEPT !.obj.dos = None, !.obj.freq_Debye = None,
                           !.obj.Debye_fit_coef = None,
                           !.obj.openmp_thm = TRUE]
    IN  Then(DosInit("TotalDos", mesh_object, sigma, use_tetrahedron_method))

\* TotalDos._get_density_of_states_at_freq(f): the numerator of
\* sum(dot(weights, calc(frequencies - f))) / sum(weights).
DensityOfStatesAtFreq(e, f) ==
    LET m == e.mesh_object
    IN  SeqSum([g \in 1..m.ngrid |->
            Weights(m)[g] *
            SeqSum([b \in 1..NumBand(m) |->
                SmearingCalc(e.smearing_function, Frequencies(m)[g][b] - f)])])

\* The streaming tetrahedron loop of TotalDos.run (openmp_thm false).
TotalDosStreaming(e) ==
    LET m == e.mesh_object
        fp == Val(e.frequency_points)
    IN  [i \in 1..Len(fp) |->
            SeqSum([g \in 1..m.ngrid |->
                Weights(m)[g] *
                SeqSum([b \in 1..NumBand(m) |->
                    IntegrationWeight(m, g, b, fp[i])])])]

\* TotalDos.run
TotalDosRun(e, phonoc) ==
    IF IsNone(e.tetrahedron_mesh)
    THEN [obj |-> [e EXCEPT !.dos = Some(
                      [i \in 1..Len(Val(e.frequency_points)) |->
                          DensityOfStatesAtFreq(e, Val(e.frequency_points)[i])])],
          raised |-> "none"]
    ELSE IF e.openmp_thm
         THEN run_tetrahedron_method_dos(e, phonoc)
         ELSE [obj |-> [e EXCEPT !.dos = Some(TotalDosStreaming(e))],
               raised |-> "none"]

\* The denominator of the stored dos values: sum(weights) on the smearing
\* path, prod(mesh) on the tetrahedron path.
DosDen(e) ==
    IF IsNone(e.tetrahedron_mesh) THEN SeqSum(Weights(e.mesh_object))
    ELSE MeshNumbers(e.mesh_object)[1] * MeshNumbers(e.mesh_object)[2] *
         MeshNumbers(e.mesh_object)[3]

\* int(x) of Python for x = a / b: truncation towards zero.
IntTrunc(a, b) ==
    LET q == Abs(a) \div Abs(b)
    IN  IF (a < 0) = (b < 0) THEN q ELSE -q

\* a[0:n] of Python: a negative n counts from the end.
Slice0(a, n) ==
    LET stop == IF n < 0 THEN (IF Len(a) + n < 0 THEN 0 ELSE Len(a) + n)
                ELSE IF n > Len(a) THEN Len(a) ELSE n
    IN  [i \in 1..stop |-> a[i]]

\* N_fit of set_Debye_frequency; the grid is not empty and, when a cutoff
\* is given, freq_max # freq_min.
NFit(frequency_points, freq_max_fit) ==
    IF IsNone(freq_max_fit)
    THEN IntTrunc(Len(frequency_points), 4)
    ELSE IntTrunc(Val(freq_max_fit) * Len(frequency_points),
                  SeqMax(frequency_points) - SeqMin(frequency_points))

\* scipy's curve_fit(Debye_dos, xdata, ydata) with one parameter: it needs
\* arrays that broadcast together and at least one residual; the fitted
\* coefficient is recorded by the data it was fitted to.
CurveFit(xdata, ydata) ==
    IF Len(xdata) # Len(ydata) /\ Len(xdata) # 1 /\ Len(ydata) # 1
    THEN [raised |-> "ValueError", popt |-> None]
    ELSE IF Len(xdata) = 0 \/ Len(ydata) = 0
    THEN [raised |-> "ValueError", popt |-> None]
    ELSE [raised |-> "none",
          popt |-> Some([xdata |-> xdata, ydata |-> ydata])]

\* A variant that fits zeros when no DOS has been computed yet.
set_Debye_frequency_unguarded(e, scipy, num_atoms, freq_max_fit) ==
    LET fp == Val(e.frequency_points)
        N_fit == IF IsNone(freq_max_fit) THEN IntTrunc(Len(fp), 4) ELSE 2
        ydata == IF IsNone(e.dos) THEN Zeros(Len(fp)) ELSE Val(e.dos)
        fit == CurveFit(Slice0(fp, N_fit), Slice0(ydata, N_fit))
    IN  IF scipy = "missing" THEN [obj |-> e, raised |-> "SystemExit"]
        ELSE IF fit.raised # "none" THEN [obj |-> e, raised |-> fit.raised]
        ELSE [obj |-> [e EXCEPT
                 !.freq_Debye = Some([num_atoms |-> num_atoms,
                                      a2 |-> Val(fit.popt)]),
                 !.Debye_fit_coef = fit.popt],
              raised |-> "none"]

\* TotalDos.set_Debye_frequency
set_Debye_frequency(e, scipy, num_atoms, freq_max_fit) ==
    IF scipy = "missing" THEN [obj |-> e, raised |-> "SystemExit"]
    ELSE IF Len(Val(e.frequency_points)) = 0
    THEN [obj |-> e, raised |-> "ValueError"]        \* min() of an empty array
    ELSE IF ~IsNone(freq_max_fit) /\
            SeqMax(Val(e.frequency_points)) = SeqMin(Val(e.frequency_points))
    THEN [obj |-> e, raised |-> "OverflowError"]     \* int() of inf or nan
    ELSE IF IsNone(e.dos)
    THEN [obj |-> e, raised |-> "TypeError"]         \* None[0:N_fit]
    ELSE LET N_fit == NFit(Val(e.frequency_points), freq_max_fit)
             fit == CurveFit(Slice0(Val(e.frequency_points), N_fit),
                             Slice0(Val(e.dos), N_fit))
         IN  IF fit.raised # "none"
             THEN [obj |-> e, raised |-> fit.raised]
             ELSE [obj |-> [e EXCEPT
                      !.freq_Debye = Some([num_atoms |-> num_atoms,
                                           a2 |-> Val(fit.popt)]),
                      !.Debye_fit_coef = fit.popt],
                   raised |-> "none"]

----------------------------------------------------------------------------
(* PartialDos *)

\* np.abs(z) ** 2
Abs2(z) == z.re * z.re + z.im * z.im

\* z * d for a real d, and the sum of three complex numbers.
Scale(z, d) == Complex(z.re * d, z.im * d)
Add3(x, y, z) == Complex(x.re + y.re + z.re, x.im + y.im + z.im)

\* A variant of the isotropic projection that leaves out the z components.
Eigvecs2WithoutZ(m, direction, xyz_projection) ==
    [val |-> [g \in 1..m.ngrid |-> [j \in 1..(NumBand(m) \div 3) |->
                 [b \in 1..NumBand(m) |->
                     Abs2(Eigenvectors(m)[g][3 * j - 2][b]) +
                     Abs2(Eigenvectors(m)[g][3 * j - 1][b])]]],
     den |-> EigScale(m) * EigScale(m)]

\* The projection coefficients self._eigvecs2 computed by
\* PartialDos.__init__: an integer array val[g][channel][b] over the
\* denominator den.  direction is None or an integer vector; its
\* normalisation d /= norm(direction) goes into the denominator.
Eigvecs2(m, direction, xyz_projection) ==
    LET ev == Eigenvectors(m)
        num_atom == NumBand(m) \div 3
        unit == EigScale(m) * EigScale(m)
    IN  IF xyz_projection
        THEN [val |-> [g \in 1..m.ngrid |-> [r \in 1..Len(ev[g]) |->
                          [b \in 1..NumBand(m) |-> Abs2(ev[g][r][b])]]],
              den |-> unit]
        ELSE IF IsNone(direction)
        THEN [val |-> [g \in 1..m.ngrid |-> [j \in 1..num_atom |->
                          [b \in 1..NumBand(m) |->
                              Abs2(ev[g][3 * j - 2][b]) +
                              Abs2(ev[g][3 * j - 1][b]) +
                              Abs2(ev[g][3 * j][b])]]],
              den |-> unit]
        ELSE LET d == Val(direction)
             IN  [val |-> [g \in 1..m.ngrid |-> [j \in 1..num_atom |->
                              [b \in 1..NumBand(m) |->
                                  Abs2(Add3(Scale(ev[g][3 * j - 2][b], d[1]),
                                            Scale(ev[g][3 * j - 1][b], d[2]),
                                            Scale(ev[g][3 * j][b], d[3])))]]],
                  den |-> unit * (d[1] * d[1] + d[2] * d[2] + d[3] * d[3])]

\* PartialDos.__init__
PartialDosInit(mesh_object, sigma, use_tetrahedron_method, direction, xyz_projection) ==
    LET Then(d) ==
            IF d.raised # "none" THEN d
            ELSE [d EXCEPT !.obj.partial_dos = None,
                           !.obj.eigvecs2 = Some(Eigvecs2(mesh_object, direction,
                                                          xyz_projection)),
                           !.obj.openmp_thm = TRUE]
    IN  Then(DosInit("PartialDos", mesh_object, sigma, use_tetrahedron_method))

\* PartialDos._run_smearing_method: partial_dos[j, i] is the numerator of
\* dot(weights / sum(weights), eigvecs2[:, j, :] * amplitudes).sum().
RunSmearingMethod(e) ==
    LET m == e.mesh_object
        fp == Val(e.frequency_points)
        ev2 == Val(e.eigvecs2).val
        num_pdos == Len(ev2[1])
    IN  [e EXCEPT !.partial_dos = Some(
            [j \in 1..num_pdos |-> [i \in 1..Len(fp) |->
                SeqSum([g \in 1..m.ngrid |->
                    Weights(m)[g] *
                    SeqSum([b \in 1..NumBand(m) |->
                        ev2[g][j][b] *
                        SmearingCalc(e.smearing_function,
                                     Frequencies(m)[g][b] - fp[i])])])]])]

\* One step of the loop of PartialDos._run_tetrahedron_method:
\* partial_dos += np.dot(iw * w, eigvecs2[i].T).T for grid point g.
AccumulateGridPoint(e, partial_dos, g) ==
    LET m == e.mesh_object
        fp == Val(e.frequency_points)
        ev2 == Val(e.eigvecs2).val
        w == Weights(m)[g]
    IN  [j \in 1..Len(partial_dos) |-> [i \in 1..Len(fp) |->
            partial_dos[j][i] +
            SeqSum([b \in 1..NumBand(m) |->
                IntegrationWeight(m, g, b, fp[i]) * w * ev2[g][j][b]])]]

RECURSIVE TetrahedronLoop(_, _, _)
TetrahedronLoop(e, partial_dos, g) ==
    IF g > e.mesh_object.ngrid THEN partial_dos
    ELSE TetrahedronLoop(e, AccumulateGridPoint(e, partial_dos, g), g + 1)

\* A variant that accumulates into the partial_dos of the previous run.
RunTetrahedronMethodAccumulating(e) ==
    LET num_pdos == Len(Val(e.eigvecs2).val[1])
        num_freqs == Len(Val(e.frequency_points))
    IN  [e EXCEPT !.partial_dos = Some(
            TetrahedronLoop(e,
                IF IsNone(e.partial_dos)
                THEN [j \in 1..num_pdos |-> Zeros(num_freqs)]
                ELSE Val(e.partial_dos), 1))]

\* PartialDos._run_tetrahedron_method: zeros, thm.set(...), then one
\* accumulation per grid point the iterator yields.
RunTetrahedronMethod(e) ==
    LET num_pdos == Len(Val(e.eigvecs2).val[1])
        num_freqs == Len(Val(e.frequency_points))
    IN  [e EXCEPT !.partial_dos = Some(
            TetrahedronLoop(e, [j \in 1..num_pdos |-> Zeros(num_freqs)], 1))]

\* PartialDos.run
PartialDosRun(e) ==
    IF IsNone(e.tetrahedron_mesh)
    THEN [obj |-> RunSmearingMethod(e), raised |-> "none"]
    ELSE [obj |-> RunTetrahedronMethod(e), raised |-> "none"]

\* The method run() dispatches to.
RunPath(e) ==
    IF e.cls = "TotalDos"
    THEN IF IsNone(e.tetrahedron_mesh) THEN "_get_density_of_states_at_freq"
         ELSE IF e.openmp_thm THEN "_run_tetrahedron_method_dos"
         ELSE "thm"
    ELSE IF IsNone(e.tetrahedron_mesh) THEN "_run_smearing_method"
         ELSE "_run_tetrahedron_method"

\* The comment write() puts at the head of the file.
WriteComment(e) ==
    IF IsNone(e.tetrahedron_mesh)
    THEN [text |-> "Sigma = %f", sigma |-> e.sigma]
    ELSE [text |-> "Tetrahedron method", sigma |-> None]

\* The denominator of the stored partial_dos values.
PdosDen(e) ==
    IF IsNone(e.tetrahedron_mesh)
    THEN SeqSum(Weights(e.mesh_object)) * Val(e.eigvecs2).den
    ELSE Val(e.eigvecs2).den

----------------------------------------------------------------------------
(* The engine specification: an engine is constructed on a mesh and then   *)
(* driven by at most MaxCalls method calls.                                *)

MaxGrid == 2
MaxCalls == 3

Meshes ==
    {[natoms |-> 1, ngrid |-> n, flat |-> FALSE, twist |-> 1] : n \in 1..MaxGrid}
    \cup {[natoms |-> 1, ngrid |-> 1, flat |-> TRUE, twist |-> 1]}

\* Arguments of the calls, in the unit of the frequencies.
CtorSigmas == {None, Some(50)}
SetSigmas == {Some(100)}
FunctionNames == {"Normal", "Cauchy"}
DrawAreas ==
    {[freq_min |-> None, freq_max |-> None, freq_pitch |-> None],
     [freq_min |-> None, freq_max |-> None, freq_pitch |-> Some(700)],
     [freq_min |-> Some(0), freq_max |-> Some(2000), freq_pitch |-> None],
     [freq_min |-> Some(2000), freq_max |-> Some(0), freq_pitch |-> None]}
Projections ==
    {[direction |-> None, xyz_projection |-> FALSE],
     [direction |-> Some(<<1, 2, 2>>), xyz_projection |-> FALSE]}
FitCutoffs == {None, Some(0), Some(30), Some(-1000)}
FitAtoms == {1}

IdleGroup ==
    /\ g_pc = "idle"
    /\ g_partial_dos = <<>>
    /\ g_indices = None
    /\ g_call = [fn |-> "none"]
    /\ g_result = [raised |-> "none", printed |-> <<>>, returned |-> None]
    /\ g_ax = NewAxes

\* Whether an optional package is installed is fixed but unknown until the
\* first import of it: that import finds it present or missing, and every
\* later one finds the same.
ImportOutcomes(known) ==
    IF known = "untried" THEN {"present", "missing"} ELSE {known}

Init ==
    /\ env = [phonoc |-> "untried", scipy |-> "untried"]
    /\ engine = None
    /\ last = [op |-> "none", raised |-> "none", n |-> 0]
    /\ pengine = None
    /\ IdleGroup

\* The result of a constructor: the object exists only if it returned.
Constructed(r, sigma, use_tetrahedron_method) ==
    /\ engine' = IF r.raised = "none" THEN Some(r.obj) ELSE None
    /\ r.locals.exact
    /\ last' = [op |-> "__init__", raised |-> r.raised, n |-> 0,
                locals |-> r.locals, sigma_unset |-> IsNone(sigma),
                use_tetrahedron_method |-> use_tetrahedron_method,
                args |-> [freq_min |-> None, freq_max |-> None,
                          freq_pitch |-> None]]
    /\ UNCHANGED <<env, gvars, pengine>>

NewTotalDos ==
    /\ IsNone(engine) /\ last.op = "none"
    /\ \E m \in Meshes, sigma \in CtorSigmas, utm \in BOOLEAN :
          Constructed(TotalDosInit(m, sigma, utm), sigma, utm)

NewPartialDos ==
    /\ IsNone(engine) /\ last.op = "none"
    /\ \E m \in Meshes, sigma \in CtorSigmas, utm \in BOOLEAN,
          p \in Projections :
          Constructed(PartialDosInit(m, sigma, utm, p.direction,
                                     p.xyz_projection), sigma, utm)

\* A method can be called on a constructed engine while the process lives.
Callable ==
    /\ ~IsNone(engine)
    /\ last.raised # "SystemExit"
    /\ last.n < MaxCalls

Called(op, r) ==
    /\ engine' = Some(r.obj)
    /\ last' = [op |-> op, raised |-> r.raised, n |-> last.n + 1,
                after |-> last.op]
    /\ UNCHANGED <<gvars, pengine>>

\* Only the bulk tetrahedron path of TotalDos.run imports phonopy._phonopy.
ImportsPhonoc(e) ==
    e.cls = "TotalDos" /\ ~IsNone(e.tetrahedron_mesh) /\ e.openmp_thm

Run ==
    /\ Callable
    /\ IF ImportsPhonoc(Val(engine))
       THEN \E found \in ImportOutcomes(env.phonoc) :
               /\ env' = [env EXCEPT !.phonoc = found]
               /\ Called("run", TotalDosRun(Val(engine), found))
       ELSE /\ env' = env
            /\ Called("run",
                      IF Val(engine).cls = "TotalDos"
                      THEN TotalDosRun(Val(engine), env.phonoc)
                      ELSE PartialDosRun(Val(engine)))

SetSigma ==
    /\ Callable
    /\ \E sigma \in SetSigmas :
          /\ Called("set_sigma",
                    [obj |-> set_sigma(Val(engine), sigma), raised |-> "none"])
          /\ env' = env

SetSmearingFunction ==
    /\ Callable
    /\ \E function_name \in FunctionNames :
          /\ Called("set_smearing_function",
                    [obj |-> set_smearing_function(Val(engine), function_name),
                     raised |-> "none"])
          /\ env' = env

SetDrawArea ==
    /\ Callable
    /\ \E a \in DrawAreas :
          LET r == set_draw_area(Val(engine), a.freq_min, a.freq_max,
                                 a.freq_pitch)
          IN  /\ r.locals.exact
              /\ engine' = Some(r.obj)
              /\ last' = [op |-> "set_draw_area", raised |-> r.raised,
                          n |-> last.n + 1, locals |-> r.locals,
                          sigma_unset |-> FALSE, args |-> a]
              /\ UNCHANGED <<env, gvars, pengine>>

SetDebyeFrequency ==
    /\ Callable
    /\ Val(engine).cls = "TotalDos"
    /\ \E num_atoms \in FitAtoms, freq_max_fit \in FitCutoffs,
          found \in ImportOutcomes(env.scipy) :
          LET r == set_Debye_frequency(Val(engine), found, num_atoms,
                                       freq_max_fit)
          IN  /\ engine' = Some(r.obj)
              /\ env' = [env EXCEPT !.scipy = found]
              /\ last' = [op |-> "set_Debye_frequency", raised |-> r.raised,
                          n |-> last.n + 1, freq_max_fit |-> freq_max_fit]
              /\ UNCHANGED <<gvars, pengine>>

Next ==
    \/ NewTotalDos
    \/ NewPartialDos
    \/ Run
    \/ SetSigma
    \/ SetSmearingFunction
    \/ SetDrawArea
    \/ SetDebyeFrequency

Spec == Init /\ [][Next]_vars

----------------------------------------------------------------------------
(* The channel-sum specification: a TotalDos and a PartialDos are built on *)
(* the same mesh with the same sigma, given the same kernel, run, and the  *)
(* rows of partial_dos are then summed in groups by get_pdos.              *)

SumAtoms == 2

SumMeshes ==
    {[natoms |-> SumAtoms, ngrid |-> n, flat |-> FALSE, twist |-> t] :
        n \in 1..MaxGrid, t \in {1, 2}}

SumSigmas == {None, Some(50)}

SumProjections ==
    Projections \cup {[direction |-> None, xyz_projection |-> TRUE]}

\* Groupings of the atoms 0..natoms-1: at most natoms groups holding at most
\* natoms indices in all (partitions and non-partitions alike).
SumGroupings == GroupingsOf(0..(SumAtoms - 1), SumAtoms, SumAtoms)

SumInit ==
    /\ env = [phonoc |-> "untried", scipy |-> "untried"]
    /\ engine = None
    /\ pengine = None
    /\ last = [op |-> "none", raised |-> "none", n |-> 0]
    /\ IdleGroup

SumNew ==
    /\ IsNone(engine) /\ last.op = "none"
    /\ \E m \in SumMeshes, sigma \in SumSigmas, p \in SumProjections :
          LET t == TotalDosInit(m, sigma, FALSE)
              q == PartialDosInit(m, sigma, FALSE, p.direction,
                                  p.xyz_projection)
          IN  /\ t.locals.exact
              /\ engine' = Some(t.obj)
              /\ pengine' = Some(q.obj)
              /\ last' = [op |-> "__init__", raised |-> "none", n |-> 0]
    /\ UNCHANGED <<env, gvars>>

SumSetSmearingFunction ==
    /\ ~IsNone(engine) /\ last.op = "__init__"
    /\ \E function_name \in FunctionNames :
          /\ engine' = Some(set_smearing_function(Val(engine), function_name))
          /\ pengine' = Some(set_smearing_function(Val(pengine), function_name))
    /\ last' = [last EXCEPT !.op = "set_smearing_function"]
    /\ UNCHANGED <<env, gvars>>

SumRun ==
    /\ ~IsNone(engine) /\ last.op \in {"__init__", "set_smearing_function"}
    /\ engine' = Some(TotalDosRun(Val(engine), env.phonoc).obj)
    /\ pengine' = Some(PartialDosRun(Val(pengine)).obj)
    /\ last' = [last EXCEPT !.op = "run"]
    /\ UNCHANGED <<env, gvars>>

SumGetPdos ==
    /\ last.op = "run" /\ g_pc = "idle"
    /\ \E gs \in SumGroupings :
          /\ g_indices' = Some(gs)
          /\ g_result' = get_pdos(Val(Val(pengine).partial_dos), Some(gs))
    /\ g_partial_dos' = Val(Val(pengine).partial_dos)
    /\ g_call' = [fn |-> "get_pdos"]
    /\ g_pc' = "done"
    /\ UNCHANGED <<g_ax, evars, pengine>>

SumNext == SumNew \/ SumSetSmearingFunction \/ SumRun \/ SumGetPdos

SpecSum == SumInit /\ [][SumNext]_vars

----------------------------------------------------------------------------
(* Properties of the index-grouping helpers (SpecGroup) *)

RECURSIVE Flatten(_)
Flatten(groups) ==
    IF groups = <<>> THEN <<>> ELSE Head(groups) \o Flatten(Tail(groups))

\* The positions, in iteration order, of the indices outside [0, natoms).
BadPositions(groups, natoms) ==
    {p \in 1..Len(Flatten(groups)) :
        Flatten(groups)[p] >= natoms \/ Flatten(groups)[p] < 0}

FirstBad(groups, natoms) ==
    Flatten(groups)[CHOOSE p \in BadPositions(groups, natoms) :
                        \A q \in BadPositions(groups, natoms) : p <= q]

\* C1: for a grouping `indices` and natoms = len(partial_dos), get_pdos and
\* plot_partial_dos raise instead of returning exactly when some group holds
\* an index i >= natoms or i < 0, and the message then printed reports the
\* 1-based value i + 1 of the offending index; with every index in
\* [0, natoms) no error is raised.
C1_IndexErrorReported ==
    (g_pc = "done" /\ ~IsNone(g_indices)) =>
        IF BadPositions(Val(g_indices), Len(g_partial_dos)) # {}
        THEN /\ g_result.raised = "ValueError"
             /\ IsNone(g_result.returned)
             /\ ~g_ax.decorated
             /\ Len(g_result.printed) = 1
             /\ g_result.printed[1].number =
                    FirstBad(Val(g_indices), Len(g_partial_dos)) + 1
        ELSE /\ g_result.raised = "none"
             /\ g_result.printed = <<>>

\* A call whose second group holds the index natoms = 2, after a valid group:
\* it raised and reported 3.
C1_Witness ==
    /\ g_pc = "done"
    /\ Len(g_partial_dos) = 2
    /\ g_indices = Some(<< <<0>>, <<2>> >>)
    /\ g_result.raised = "ValueError"
    /\ g_result.printed[1].number = 3

\* C2: an index-grouping call that fails on an invalid index leaves no
\* partial output: nothing was returned and no curve was drawn on the axes.
C2_NoPartialOutput ==
    (g_pc = "done" /\ g_result.raised = "ValueError") =>
        /\ IsNone(g_result.returned)
        /\ g_ax.curves = <<>>

----------------------------------------------------------------------------
(* Properties of the channel sum (SpecSum) *)

\* The groups cover every atom 0..natoms-1 exactly once.
IsPartition(groups, natoms) ==
    /\ Len(Flatten(groups)) = natoms
    /\ \A a \in 0..(natoms - 1) : \E p \in 1..natoms : Flatten(groups)[p] = a

\* The value at grid index i of a group sum returned by get_pdos (the sum of
\* an empty group is the scalar 0).
GroupValue(x, i) == IF x.tag = "scalar" THEN 0 ELSE x.arr[i]

\* The coefficients of the PartialDos are the default isotropic ones.
IsotropicProjection ==
    Val(pengine).eigvecs2 =
        Some(Eigvecs2(Val(pengine).mesh_object, None, FALSE))

\* C3: in smearing mode with the default isotropic projection, for a
\* TotalDos and a PartialDos on the same mesh, sigma, kernel and grid, the
\* sums returned by get_pdos for a partition of the atoms add up to
\* TotalDos.dos at every frequency point (values compared over their
\* denominators: sum / PdosDen = dos / DosDen).
C3_ChannelSumIsTotal ==
    (/\ g_pc = "done" /\ ~IsNone(pengine)
     /\ IsotropicProjection
     /\ IsPartition(Val(g_indices), Val(pengine).mesh_object.natoms)) =>
        /\ g_result.raised = "none"
        /\ \A i \in 1..Len(Val(Val(engine).frequency_points)) :
              SeqSum([k \in 1..Len(Val(g_result.returned)) |->
                         GroupValue(Val(g_result.returned)[k], i)])
                  * DosDen(Val(engine))
              = Val(Val(engine).dos)[i] * PdosDen(Val(pengine))

\* The two atoms summed as two groups of a Cauchy-smeared PartialDos whose
\* total is not zero everywhere.
C3_Witness ==
    /\ g_pc = "done" /\ ~IsNone(pengine)
    /\ IsotropicProjection
    /\ g_indices = Some(<< <<1>>, <<0>> >>)
    /\ Val(pengine).smearing_function.name = "Cauchy"
    /\ g_result.raised = "none"
    /\ \E i \in 1..Len(Val(Val(engine).dos)) : Val(Val(engine).dos)[i] > 0
    /\ \E i \in 1..Len(Val(Val(engine).dos)) :
          /\ GroupValue(Val(g_result.returned)[1], i) > 0
          /\ GroupValue(Val(g_result.returned)[2], i) > 0

----------------------------------------------------------------------------
(* Properties of the engines (Spec) *)

Smearing(e) == IsNone(e.tetrahedron_mesh)

\* C4: a computed result is aligned with the frequency grid the engine
\* exposes: len(dos) = len(frequency_points) whenever dos is not None, and
\* every row of partial_dos has len(frequency_points) entries.
C4_ResultAlignedWithGrid ==
    ~IsNone(engine) =>
        /\ ~IsNone(Val(engine).dos) =>
              Len(Val(Val(engine).dos)) = Len(Val(Val(engine).frequency_points))
        /\ ~IsNone(Val(engine).partial_dos) =>
              \A j \in 1..Len(Val(Val(engine).partial_dos)) :
                  Len(Val(Val(engine).partial_dos)[j]) =
                      Len(Val(Val(engine).frequency_points))

\* C5: after a run() in smearing mode the result was computed with the
\* engine's stored sigma: the width held by the kernel that run() used
\* equals self._sigma, the value write() reports.
C5_KernelWidthIsSigma ==
    (/\ ~IsNone(engine) /\ Smearing(Val(engine))
     /\ last.op = "run" /\ last.raised = "none") =>
        Val(engine).smearing_function.sigma = Val(engine).sigma

\* C6: a run() leaves a TotalDos with no Debye fit: the frequency and the
\* coefficient fitted to an earlier DOS are gone.
C6_RunInvalidatesFit ==
    (/\ ~IsNone(engine) /\ Val(engine).cls = "TotalDos"
     /\ last.op = "run" /\ last.raised = "none") =>
        /\ IsNone(Val(engine).freq_Debye)
        /\ IsNone(Val(engine).Debye_fit_coef)

\* C7: a TotalDos has its grid from construction on and no DOS and no fit
\* right after it; a Debye frequency or coefficient is held only together
\* with a computed DOS; and set_Debye_frequency on an engine that has no
\* DOS ends in an error with both still None.
C7_FitOnlyAfterRun ==
    (~IsNone(engine) /\ Val(engine).cls = "TotalDos") =>
        /\ ~IsNone(Val(engine).frequency_points)
        /\ last.op = "__init__" =>
              /\ IsNone(Val(engine).dos)
              /\ IsNone(Val(engine).freq_Debye)
              /\ IsNone(Val(engine).Debye_fit_coef)
        /\ (~IsNone(Val(engine).freq_Debye) \/
            ~IsNone(Val(engine).Debye_fit_coef)) => ~IsNone(Val(engine).dos)
        /\ (last.op = "set_Debye_frequency" /\ IsNone(Val(engine).dos)) =>
              /\ last.raised # "none"
              /\ IsNone(Val(engine).freq_Debye)
              /\ IsNone(Val(engine).Debye_fit_coef)

\* set_Debye_frequency was called with scipy present on an engine that was
\* never run, and raised.
C7_Witness ==
    /\ ~IsNone(engine) /\ Val(engine).cls = "TotalDos"
    /\ last.op = "set_Debye_frequency" /\ last.raised = "TypeError"
    /\ IsNone(Val(engine).dos)
    /\ IsNone(Val(engine).freq_Debye)

\* The last call was a constructor or a set_draw_area that built the grid.
GridBuilt ==
    /\ ~IsNone(engine)
    /\ last.op \in {"__init__", "set_draw_area"}
    /\ last.raised = "none"

Grid == Val(Val(engine).frequency_points)

NoOverrides ==
    /\ IsNone(last.args.freq_min)
    /\ IsNone(last.args.freq_max)
    /\ IsNone(last.args.freq_pitch)

DataMin == MatMin(Frequencies(Val(engine).mesh_object))
DataMax == MatMax(Frequencies(Val(engine).mesh_object))

\* With no overrides the grid covers the margined data range, sigma being
\* (max - min) / 100 when it was unset.
CoversMarginedRange ==
    NoOverrides =>
        /\ Grid[1] <= DataMin - MarginFactor * last.locals.sigma
        /\ Grid[Len(Grid)] >= DataMax + MarginFactor * last.locals.sigma
        /\ last.sigma_unset =>
              SigmaDivisor * last.locals.sigma = DataMax - DataMin

\* C8 as stated: for every frequency matrix, sigma and overrides the grid
\* built by set_draw_area is strictly increasing and evenly spaced from f_min
\* to f_max inclusive, its last point being f_max up to 0.1 x pitch, and with
\* no overrides it covers the margined data range.
C8_GridSpansDrawArea ==
    GridBuilt =>
        /\ Len(Grid) >= 1
        /\ Grid[1] = last.locals.f_min
        /\ \A i \in 1..(Len(Grid) - 1) :
              Grid[i + 1] > Grid[i] /\
              Grid[i + 1] - Grid[i] = Grid[2] - Grid[1]
        /\ 10 * Abs(Grid[Len(Grid)] - last.locals.f_max) <=
              Abs(last.locals.f_delta)
        /\ CoversMarginedRange

\* C8 amended: when the pitch f_delta is positive the grid is strictly
\* increasing and evenly spaced by the pitch from f_min, and it ends at the
\* last such point below f_max + 0.1 x pitch (it is empty when there is
\* none): with the default pitch (f_max - f_min) / 200 that point is f_max
\* and the grid has 201 points, with a given pitch it lies within one pitch
\* of f_max + 0.1 x pitch; with no overrides the grid covers the margined
\* data range.
C8_GridOfPositivePitch ==
    (GridBuilt /\ last.locals.f_delta > 0) =>
        /\ \A i \in 1..Len(Grid) :
              /\ Grid[i] = last.locals.f_min + (i - 1) * last.locals.f_delta
              /\ 10 * Grid[i] < 10 * last.locals.f_max + last.locals.f_delta
        /\ 10 * (last.locals.f_min + Len(Grid) * last.locals.f_delta) >=
              10 * last.locals.f_max + last.locals.f_delta
        /\ IsNone(last.args.freq_pitch) =>
              /\ Len(Grid) = PitchDivisor + 1
              /\ Grid[Len(Grid)] = last.locals.f_max
        /\ CoversMarginedRange

\* set_draw_area(freq_pitch=700) built a grid of several points that stops
\* more than a tenth of the pitch short of f_max.
C8_Witness ==
    /\ GridBuilt
    /\ last.op = "set_draw_area"
    /\ last.args.freq_pitch = Some(700)
    /\ Len(Grid) > 1
    /\ 10 * (last.locals.f_max - Grid[Len(Grid)]) > last.locals.f_delta

\* The step is a call of set_Debye_frequency that reached the computation
\* of N_fit.
FitStep ==
    /\ ~IsNone(engine)
    /\ last'.op = "set_Debye_frequency" /\ last'.n = last.n + 1
    /\ last'.raised # "SystemExit"
    /\ Len(Grid) > 0
    /\ IsNone(last'.freq_max_fit) \/ SeqMax(Grid) # SeqMin(Grid)

\* C9: set_Debye_frequency fails, and leaves the Debye frequency and the
\* coefficient unchanged, whenever N_fit < 2.
C9_TooFewPointsFitFails ==
    [][(FitStep /\ NFit(Grid, last'.freq_max_fit) < 2) =>
          /\ last'.raised # "none"
          /\ Val(engine').freq_Debye = Val(engine).freq_Debye
          /\ Val(engine').Debye_fit_coef = Val(engine).Debye_fit_coef]_vars

\* The step is a run() of a TotalDos in tetrahedron mode that finds the
\* native extension missing.
RunWithoutExtension ==
    /\ ~IsNone(engine)
    /\ Val(engine).cls = "TotalDos" /\ ~Smearing(Val(engine))
    /\ last'.op = "run" /\ last'.n = last.n + 1
    /\ env'.phonoc = "missing"

\* C10: without the native primitive TotalDos.run() in tetrahedron mode ends
\* in an error at the tetrahedron integration: dos (the whole engine) keeps
\* its value and no smearing result is stored instead.
C10_MissingExtensionFailsFast ==
    [][RunWithoutExtension =>
          /\ last'.raised = "SystemExit"
          /\ engine' = engine]_vars

\* A tetrahedron-mode run() ended in SystemExit with the extension missing.
C10_Witness ==
    /\ ~IsNone(engine)
    /\ Val(engine).cls = "TotalDos" /\ ~Smearing(Val(engine))
    /\ last.op = "run" /\ last.raised = "SystemExit"
    /\ env.phonoc = "missing"
    /\ IsNone(Val(engine).dos)

\* The step is a method call on a constructed engine.
MethodStep ==
    /\ ~IsNone(engine) /\ ~IsNone(engine')
    /\ last'.n = last.n + 1

\* C11: the integration mode is chosen once at construction and never
\* mutated: a constructor yields tetrahedron mode exactly when it was given
\* use_tetrahedron_method = True and sigma = None, and no method call
\* changes the path run() takes or the kind of comment write() emits.
C11_ModeChosenOnce ==
    [][/\ (last'.op = "__init__" /\ ~IsNone(engine')) =>
             (~Smearing(Val(engine')) <=>
                 (last'.use_tetrahedron_method /\ last'.sigma_unset))
       /\ MethodStep =>
             /\ Smearing(Val(engine')) = Smearing(Val(engine))
             /\ RunPath(Val(engine')) = RunPath(Val(engine))
             /\ WriteComment(Val(engine')).text =
                   WriteComment(Val(engine)).text]_vars

\* An engine constructed in tetrahedron mode was given an explicit sigma by
\* set_sigma and then ran: it is still in tetrahedron mode.
C11_Witness ==
    /\ ~IsNone(engine)
    /\ ~Smearing(Val(engine))
    /\ Val(engine).sigma = Some(100)
    /\ last.op = "run" /\ last.raised = "none"
    /\ WriteComment(Val(engine)).text = "Tetrahedron method"

\* The step is a run() that returns, directly after a run() that returned.
RunAgain ==
    /\ ~IsNone(engine)
    /\ last.op = "run" /\ last.raised = "none"
    /\ last'.op = "run" /\ last'.raised = "none" /\ last'.n = last.n + 1

\* C12: run() overwrites the prior result instead of accumulating into it:
\* a run() that follows a run() with unchanged parameters stores the result
\* of a single run() (dos, partial_dos and every other field are unchanged),
\* on the smearing paths and on the tetrahedron paths.
C12_RunOverwrites ==
    [][RunAgain => engine' = engine]_vars

\* A PartialDos in tetrahedron mode ran directly after a run and holds a
\* partial_dos that is not all zeros.
C12_Witness ==
    /\ ~IsNone(engine)
    /\ Val(engine).cls = "PartialDos" /\ ~Smearing(Val(engine))
    /\ last.op = "run" /\ last.raised = "none" /\ last.after = "run"
    /\ ~IsNone(Val(engine).partial_dos)
    /\ \E j \in 1..Len(Val(Val(engine).partial_dos)) :
          \E i \in 1..Len(Val(Val(engine).partial_dos)[j]) :
             Val(Val(engine).partial_dos)[j][i] > 0

====
